---------------------------- MODULE Spec2Model ----------------------------
(***************************************************************************)
(* Model of the POST /process handler of policy_server.py.                 *)
(*                                                                         *)
(* Text is a sequence of units.  A unit is one character for the           *)
(* characters the handler itself looks at (backtick, newline, space) and   *)
(* for JSON's structural characters; a JSON string literal, number or      *)
(* word is one unit, since no operation of the handler cuts inside one.    *)
(* Strings of the request (policy_text, api_key, the environment value)    *)
(* are sequences of one-character units.                                   *)
(***************************************************************************)
EXTENDS Integers, Sequences, FiniteSets, TLC

VARIABLES pc, env, request, policy_text, api_key, calls, message, response, escaped

vars == <<pc, env, request, policy_text, api_key, calls, message, response, escaped>>

(***************************** bounds **************************************)
\* Longest JSON array of atoms in a generated model reply.
MaxAtoms == 1

(***************************** str methods *********************************)
\* str.strip() removes leading and trailing whitespace.
Whitespace == {" ", "\n"}

RECURSIVE LStrip(_)
LStrip(s) ==
    IF s # <<>> /\ Head(s) \in Whitespace THEN LStrip(Tail(s)) ELSE s

RECURSIVE RStrip(_)
RStrip(s) ==
    IF s # <<>> /\ s[Len(s)] \in Whitespace
    THEN RStrip(SubSeq(s, 1, Len(s) - 1))
    ELSE s

Strip(s) == RStrip(LStrip(s))

\* The backtick character (the lexer of TLA+ takes none in a string).
Backtick == "<backtick>"

Fence == <<Backtick, Backtick, Backtick>>

\* cleaned.startswith(<three backticks>)
StartsWithFence(s) == Len(s) >= 3 /\ SubSeq(s, 1, 3) = Fence

\* cleaned.endswith(<three backticks>)
EndsWithFence(s) == Len(s) >= 3 /\ SubSeq(s, Len(s) - 2, Len(s)) = Fence

\* The mutant takes the fence's own end when there is no newline.
IndexNewlineOrFenceEnd(s) ==
    IF \E i \in 1..Len(s) : s[i] = "\n"
    THEN CHOOSE i \in 1..Len(s) : s[i] = "\n" /\ \A j \in 1..(i - 1) : s[j] # "\n"
    ELSE 3

\* cleaned.index('\n'): the 1-based place of the first newline, 0 standing
\* for the ValueError that str.index raises when there is none.
IndexNewline(s) ==
    IF \E i \in 1..Len(s) : s[i] = "\n"
    THEN CHOOSE i \in 1..Len(s) : s[i] = "\n" /\ \A j \in 1..(i - 1) : s[j] # "\n"
    ELSE 0


(***************************** fence stripping *****************************)
\* The mutant leaves the closing fence in place.
StripFencesKeepClosing(response_text) ==
    LET c0 == Strip(response_text)
        n  == IndexNewline(c0)
    IN  IF StartsWithFence(c0) /\ n = 0
        THEN [raised |-> "ValueError", cleaned |-> <<>>]
        ELSE [raised |-> "none",
              cleaned |-> Strip(IF StartsWithFence(c0) THEN SubSeq(c0, n + 1, Len(c0))
                                ELSE c0)]

\* Lines 156-163.  raised = "ValueError" when index('\n') finds no newline.
StripFences(response_text) ==
    LET c0 == Strip(response_text)
        n  == IndexNewline(c0)
    IN  IF StartsWithFence(c0) /\ n = 0
        THEN [raised |-> "ValueError", cleaned |-> <<>>]
        ELSE LET c1 == IF StartsWithFence(c0) THEN SubSeq(c0, n + 1, Len(c0)) ELSE c0
                 c2 == IF EndsWithFence(c1) THEN SubSeq(c1, 1, Len(c1) - 3) ELSE c1
             IN  [raised |-> "none", cleaned |-> Strip(c2)]

(***************************** json.loads **********************************)
\* JSON string literals of the model, each one unit, with their contents.
StringUnit ==
    ( "\"policies\"" :> "policies" @@ "\"display_text\"" :> "display_text"
      @@ "\"category\"" :> "category" @@ "\"sensitivity\"" :> "sensitivity"
      @@ "\"confidence\"" :> "confidence" @@ "\"note\"" :> "note"
      @@ "\"Extra bed at INR 500/night.\"" :> "Extra bed at INR 500/night."
      @@ "\"extra_bed\"" :> "extra_bed" @@ "\"standard\"" :> "standard"
      @@ "\"critical\"" :> "critical" @@ "\"\"" :> "" )

NumberUnits == {"0", "1", "0.9"}

WordValue == ( "null" :> [t |-> "null"] @@ "true" :> [t |-> "bool", v |-> "true"]
               @@ "false" :> [t |-> "bool", v |-> "false"] )

JNull == [t |-> "null"]
JStr(c) == [t |-> "str", v |-> c]
JNum(u) == [t |-> "num", v |-> u]
JList(items) == [t |-> "list", v |-> items]
JDict(pairs) == [t |-> "dict", v |-> pairs]

\* dict[k] = v: a repeated key keeps its place and takes the last value.
DictSet(pairs, k, v) ==
    IF \E i \in 1..Len(pairs) : pairs[i].k = k
    THEN [i \in 1..Len(pairs) |-> IF pairs[i].k = k THEN [k |-> k, v |-> v] ELSE pairs[i]]
    ELSE Append(pairs, [k |-> k, v |-> v])

\* dict.get(k, default)
DictGet(d, k, default) ==
    IF \E i \in 1..Len(d.v) : d.v[i].k = k
    THEN d.v[CHOOSE i \in 1..Len(d.v) : d.v[i].k = k].v
    ELSE default

Ok(val, next) == [ok |-> TRUE, val |-> val, next |-> next, msg |-> "", pos |-> 0]
\* JSONDecodeError(msg, doc, pos), pos counted from 0 as Python does.
Err(msg, i) == [ok |-> FALSE, val |-> JNull, next |-> 0, msg |-> msg, pos |-> i - 1]

RECURSIVE SkipWs(_, _)
SkipWs(s, i) ==
    IF i <= Len(s) /\ s[i] \in Whitespace THEN SkipWs(s, i + 1) ELSE i

RECURSIVE ScanOnce(_, _)
RECURSIVE JSONArrayItems(_, _, _)
RECURSIVE JSONObjectMembers(_, _, _)

\* The items of an array, the first starting at i.
JSONArrayItems(s, i, acc) ==
    LET r == ScanOnce(s, i)
    IN  IF ~r.ok THEN r
        ELSE LET j == SkipWs(s, r.next)
                 items == Append(acc, r.val)
             IN  IF j <= Len(s) /\ s[j] = "]" THEN Ok(JList(items), j + 1)
                 ELSE IF j > Len(s) \/ s[j] # "," THEN Err("Expecting ',' delimiter", j)
                 ELSE JSONArrayItems(s, SkipWs(s, j + 1), items)

\* The members of an object, the first key expected at i.
JSONObjectMembers(s, i, acc) ==
    IF i > Len(s) \/ s[i] \notin DOMAIN StringUnit
    THEN Err("Expecting property name enclosed in double quotes", i)
    ELSE LET j == SkipWs(s, i + 1)
         IN  IF j > Len(s) \/ s[j] # ":" THEN Err("Expecting ':' delimiter", j)
             ELSE LET r == ScanOnce(s, SkipWs(s, j + 1))
                  IN  IF ~r.ok THEN r
                      ELSE LET m == SkipWs(s, r.next)
                               pairs == DictSet(acc, StringUnit[s[i]], r.val)
                           IN  IF m <= Len(s) /\ s[m] = "}" THEN Ok(JDict(pairs), m + 1)
                               ELSE IF m > Len(s) \/ s[m] # ","
                               THEN Err("Expecting ',' delimiter", m)
                               ELSE JSONObjectMembers(s, SkipWs(s, m + 1), pairs)

\* One JSON value starting at i.
ScanOnce(s, i) ==
    IF i > Len(s) THEN Err("Expecting value", i)
    ELSE LET u == s[i]
         IN  CASE u \in DOMAIN StringUnit -> Ok(JStr(StringUnit[u]), i + 1)
               [] u \in NumberUnits -> Ok(JNum(u), i + 1)
               [] u \in DOMAIN WordValue -> Ok(WordValue[u], i + 1)
               [] u = "[" ->
                    LET j == SkipWs(s, i + 1)
                    IN  IF j <= Len(s) /\ s[j] = "]" THEN Ok(JList(<<>>), j + 1)
                        ELSE JSONArrayItems(s, j, <<>>)
               [] u = "{" ->
                    LET j == SkipWs(s, i + 1)
                    IN  IF j <= Len(s) /\ s[j] = "}" THEN Ok(JDict(<<>>), j + 1)
                        ELSE JSONObjectMembers(s, j, <<>>)
               [] OTHER -> Err("Expecting value", i)

\* json.loads(s): one value, whitespace around it, nothing after it.
JsonLoads(s) ==
    LET r == ScanOnce(s, SkipWs(s, 1))
    IN  IF ~r.ok THEN r
        ELSE LET e == SkipWs(s, r.next)
             IN  IF e <= Len(s) THEN Err("Extra data", e) ELSE r

(***************************** jsonify *************************************)
RECURSIVE Dump(_)
RECURSIVE DumpItems(_, _)
RECURSIVE DumpMembers(_, _)

DumpItems(items, i) ==
    IF i > Len(items) THEN <<>>
    ELSE (IF i > 1 THEN <<",">> ELSE <<>>) \o Dump(items[i]) \o DumpItems(items, i + 1)

DumpMembers(pairs, i) ==
    IF i > Len(pairs) THEN <<>>
    ELSE (IF i > 1 THEN <<",">> ELSE <<>>)
         \o <<CHOOSE u \in DOMAIN StringUnit : StringUnit[u] = pairs[i].k, ":">>
         \o Dump(pairs[i].v) \o DumpMembers(pairs, i + 1)

\* The JSON text of a value, members in the dict's own order.
Dump(val) ==
    CASE val.t = "null" -> <<"null">>
      [] val.t \in {"bool", "num"} -> <<val.v>>
      [] val.t = "str" -> <<CHOOSE u \in DOMAIN StringUnit : StringUnit[u] = val.v>>
      [] val.t = "list" -> <<"[">> \o DumpItems(val.v, 1) \o <<"]">>
      [] val.t = "dict" -> <<"{">> \o DumpMembers(val.v, 1) \o <<"}">>

(***************************** the try block *******************************)
\* A Python exception, str(e) being its message.
Raised(exc, msg) == [raised |-> exc, msg |-> msg, policies |-> JNull]
Returned(policies) == [raised |-> "none", msg |-> <<>>, policies |-> policies]

TypeName(val) ==
    CASE val.t = "null" -> "NoneType"
      [] val.t = "bool" -> "bool"
      [] val.t = "num" -> IF val.v = "0.9" THEN "float" ELSE "int"
      [] val.t = "str" -> "str"
      [] val.t = "list" -> "list"
      [] val.t = "dict" -> "dict"

\* Line 166.
ExtractPolicies(parsed) ==
    IF parsed.t = "dict" THEN DictGet(parsed, "policies", JList(<<>>)) ELSE parsed

\* What "for p in policies" iterates: a list's items, a dict's keys, a str's
\* characters (each a str; one stands for them all, the first one raising).
IterItems(policies) ==
    CASE policies.t = "list" -> policies.v
      [] policies.t = "dict" -> [i \in 1..Len(policies.v) |-> JStr(policies.v[i].k)]
      [] policies.t = "str" -> IF policies.v = "" THEN <<>> ELSE <<JStr(policies.v)>>

\* Lines 170-171 for one p: the exception the two log lines raise, if any.
\* p.get needs a dict; p.get('display_text', '')[:70] needs a value that
\* takes a slice (a str or a list).
LogAtom(p) ==
    IF p.t # "dict"
    THEN Raised("AttributeError", <<"object has no attribute 'get'", TypeName(p)>>)
    ELSE LET d == DictGet(p, "display_text", JStr(""))
         IN  IF d.t \in {"str", "list"} THEN Returned(JNull)
             ELSE IF d.t = "dict" THEN Raised("TypeError", <<"unhashable type: 'slice'">>)
             ELSE Raised("TypeError", <<"object is not subscriptable", TypeName(d)>>)

\* Lines 168-172: len(policies), then the loop, stopping at the first raise.
LogAtoms(policies) ==
    IF policies.t \notin {"list", "dict", "str"}
    THEN Raised("TypeError", <<"object has no len()", TypeName(policies)>>)
    ELSE LET items == IterItems(policies)
             bad == {i \in 1..Len(items) : LogAtom(items[i]).raised # "none"}
         IN  IF bad = {} THEN Returned(policies)
             ELSE LogAtom(items[CHOOSE i \in bad : \A j \in bad : i <= j])

\* Lines 152-174: from the upstream message to the policies, or the raise.
TryBody(msg) ==
    IF Len(msg.content) = 0
    THEN Raised("IndexError", <<"list index out of range">>)
    ELSE LET f == StripFences(msg.content[1])
         IN  IF f.raised # "none" THEN Raised("ValueError", <<"substring not found">>)
             ELSE LET r == JsonLoads(f.cleaned)
                  IN  IF ~r.ok
                      THEN Raised("JSONDecodeError", <<r.msg, "char", ToString(r.pos)>>)
                      ELSE LogAtoms(ExtractPolicies(r.val))

(***************************** responses ***********************************)
\* jsonify(policies=...), status 200.
PoliciesResponse(policies) ==
    [status |-> 200, kind |-> "json", key |-> "policies", body |-> Dump(policies)]

\* jsonify(error=...), status.
ErrorResponse(status, text) ==
    [status |-> status, kind |-> "json", key |-> "error", body |-> text]

\* What the framework answers when the view function raises: an HTML page.
FrameworkResponse(status) ==
    [status |-> status, kind |-> "html", key |-> "none", body |-> <<>>]

NoResponse == [status |-> 0, kind |-> "none", key |-> "none", body |-> <<>>]

MissingApiKey == ErrorResponse(400, <<"No Anthropic API key provided.">>)
EmptyInput == ErrorResponse(400, <<"No policy text provided.">>)
UpstreamApiError(text) == ErrorResponse(500, <<"Claude API error: ">> \o text)

\* The mutant has no clause for JSONDecodeError.
ExceptClausesNoJsonClause(r) ==
    CASE r.raised = "none" -> PoliciesResponse(r.policies)
      [] r.raised = "APIError" -> UpstreamApiError(r.msg)
      [] OTHER -> ErrorResponse(500, r.msg)

\* Lines 176-184: the except clauses, in their order.
ExceptClauses(r) ==
    CASE r.raised = "none" -> PoliciesResponse(r.policies)
      [] r.raised = "APIError" -> UpstreamApiError(r.msg)
      [] r.raised = "JSONDecodeError" ->
            ErrorResponse(500, <<"Failed to parse Claude response as JSON: ">> \o r.msg)
      [] OTHER -> ErrorResponse(500, r.msg)

(***************************** validation **********************************)
\* A field of the request body as request.get_json gives it.
Absent == [t |-> "absent", n |-> 0, s |-> <<>>]
Null == [t |-> "null", n |-> 0, s |-> <<>>]
Num(n) == [t |-> "num", n |-> n, s |-> <<>>]
Str(s) == [t |-> "str", n |-> 0, s |-> s]

\* Python truth of data.get(field): None for an absent field.
Truthy(v) ==
    CASE v.t \in {"absent", "null"} -> FALSE
      [] v.t = "num" -> v.n # 0
      [] v.t = "str" -> v.s # <<>>

\* (x or '')
OrEmpty(v) == IF Truthy(v) THEN v ELSE Str(<<>>)

\* os.environ.get('ANTHROPIC_API_KEY', '')
EnvGet(environ) == IF environ.t = "absent" THEN <<>> ELSE environ.s

\* Line 131 once the field is known to be a string or falsy; the mutant
\* forgets the strip.
UntrimmedText(data) == OrEmpty(data.policy_text).s

TrimmedText(data) == Strip(OrEmpty(data.policy_text).s)

\* Line 132: the trimmed api_key field, or else the environment's value
\* as it stands.
ResolveKey(data, environ) ==
    LET a == Strip(OrEmpty(data.api_key).s)
    IN  IF a # <<>> THEN a ELSE EnvGet(environ)

\* Where the handler goes after lines 129-137: "raise" (an exception leaves
\* the view function), "return" (a 400 response) or "try".
Stop(to, resp, exc) ==
    [next |-> to, response |-> resp, escaped |-> exc, policy_text |-> <<>>,
     api_key |-> <<>>]

\* The mutant checks the key alone.
CheckKeyOnly(text, key) ==
    IF key = <<>> THEN Stop("return", MissingApiKey, "none")
    ELSE [next |-> "try", response |-> NoResponse, escaped |-> "none",
          policy_text |-> text, api_key |-> key]

\* Lines 134-137: the key first, then the text.
CheckInputs(text, key) ==
    IF key = <<>> THEN Stop("return", MissingApiKey, "none")
    ELSE IF text = <<>> THEN Stop("return", EmptyInput, "none")
    ELSE [next |-> "try", response |-> NoResponse, escaped |-> "none",
          policy_text |-> text, api_key |-> key]

\* Lines 129-137.  get_json(force=True) raises BadRequest on a body that is
\* no JSON; data.get needs a dict; .strip() needs a str.
ValidateOutcome(data, environ) ==
    CASE data.kind = "malformed" -> Stop("raise", FrameworkResponse(400), "BadRequest")
      [] data.kind = "nonobject" -> Stop("raise", FrameworkResponse(500), "AttributeError")
      [] OTHER ->
            IF OrEmpty(data.policy_text).t # "str" \/ OrEmpty(data.api_key).t # "str"
            THEN Stop("raise", FrameworkResponse(500), "AttributeError")
            ELSE CheckInputs(TrimmedText(data), ResolveKey(data, environ))

(***************************** inputs ***************************************)
\* Strings a request field may hold: empty, blank, plain, padded.
FieldStrings == {<<>>, <<" ">>, <<"x">>, <<" ", "x", " ">>}

FieldValues == {Absent, Null, Num(0), Num(5)} \cup {Str(s) : s \in FieldStrings}

\* Request bodies: not JSON at all, JSON but no object, or an object.
Bodies ==
    {[kind |-> k, policy_text |-> Absent, api_key |-> Absent] :
        k \in {"malformed", "nonobject"}}
    \cup {[kind |-> "object", policy_text |-> p, api_key |-> a] :
            p \in FieldValues, a \in FieldValues}

NoBody == [kind |-> "none", policy_text |-> Absent, api_key |-> Absent]

\* ANTHROPIC_API_KEY: unset, empty, blank, set.
Environs == {Absent, Str(<<>>), Str(<<" ">>), Str(<<"k">>)}

\* "key": value, or nothing when the atom lacks the field (value = <<>>).
Member(key, value) == IF value = <<>> THEN <<>> ELSE <<key, ":">> \o value

RECURSIVE Join(_, _)
\* The non-empty parts, commas between them.
Join(parts, i) ==
    IF i > Len(parts) THEN <<>>
    ELSE LET rest == Join(parts, i + 1)
         IN  IF parts[i] = <<>> THEN rest
             ELSE IF rest = <<>> THEN parts[i]
             ELSE parts[i] \o <<",">> \o rest

AtomText(display_text, category, sensitivity) ==
    <<"{">>
    \o Join(<<Member("\"display_text\"", display_text), Member("\"category\"", category),
              Member("\"sensitivity\"", sensitivity)>>, 1)
    \o <<"}">>

GoodText == <<"\"Extra bed at INR 500/night.\"">>

\* Atoms as a model may write them: well formed, or with a field absent or
\* of another JSON type.
AtomTexts ==
    {AtomText(d, <<"\"extra_bed\"">>, <<"\"standard\"">>) :
        d \in {GoodText, <<>>, <<"null">>, <<"1">>, <<"[", "]">>}}
    \cup {AtomText(GoodText, <<"1">>, <<"\"critical\"">>),
          AtomText(GoodText, <<>>, <<"null">>)}

ArrayText(items) == <<"[">> \o Join(items, 1) \o <<"]">>

\* Arrays of at most MaxAtoms items, an item being an atom or a number.
ArrayTexts ==
    {ArrayText(items) :
        items \in UNION {[1..n -> AtomTexts \cup {<<"1">>}] : n \in 0..MaxAtoms}}

\* JSON texts (and non-JSON ones) a reply may consist of.
Cores ==
    ArrayTexts
    \cup {<<"{", "\"policies\"", ":">> \o a \o <<"}">> : a \in ArrayTexts}
    \cup {<<"{", " ", "\"policies\"", ":", "\n", "[", " ", "]", "}">>,
          <<"{", "}">>, <<"{", "\"note\"", ":", "1", "}">>,
          <<"{", "\"policies\"", ":", "null", "}">>,
          <<"{", "\"policies\"", ":", "\"\"", "}">>,
          <<"{", "\"policies\"", ":", "{", "}", "}">>,
          <<"{", "\"policies\"", ":", "\"note\"", "}">>,
          <<"1">>, <<"null">>, <<"\"\"">>,
          <<>>, <<"Sure">>, <<"[">>, <<"[", "1", ",", "]">>, <<"{", "\"policies\"", "}">>,
          <<"[", "]", "[", "]">>}

\* What precedes the JSON text: nothing, padding, an opening fence line
\* (with or without a language tag), a fence with no line end, two fences.
Prefixes ==
    {<<>>, <<" ">>,
     Fence \o <<"\n">>, Fence \o <<"json", "\n">>, <<"\n">> \o Fence \o <<"json", "\n">>,
     Fence, Fence \o <<"json">>,
     Fence \o <<"\n">> \o Fence \o <<"json", "\n">>}

\* What follows it: nothing, a closing fence, padding, two fences.
Suffixes ==
    {<<>>, <<"\n">> \o Fence, Fence \o <<" ">>, <<"\n">>,
     <<"\n">> \o Fence \o <<"\n">> \o Fence}

Replies == {p \o c \o q : p \in Prefixes, c \in Cores, q \in Suffixes}

NoMessage == [kind |-> "none", content |-> <<>>, text |-> <<>>]

\* What client.messages.create may do: raise APIError, or return a message
\* whose content is empty or starts with one text block.
UpstreamOutcomes ==
    {[kind |-> "APIError", content |-> <<>>, text |-> <<"upstream error text">>],
     [kind |-> "message", content |-> <<>>, text |-> <<>>]}
    \cup {[kind |-> "message", content |-> <<t>>, text |-> <<>>] : t \in Replies}

(***************************** the handler *********************************)
Init ==
    /\ pc = "Idle"
    /\ env \in Environs
    /\ request = NoBody
    /\ policy_text = <<>>
    /\ api_key = <<>>
    /\ calls = 0
    /\ message = NoMessage
    /\ response = NoResponse
    /\ escaped = "none"

\* A client posts to /process.
Receive ==
    /\ pc = "Idle"
    /\ \E b \in Bodies : request' = b
    /\ pc' = "Validating"
    /\ UNCHANGED <<env, policy_text, api_key, calls, message, response, escaped>>

\* Lines 129-137.
Validate ==
    /\ pc = "Validating"
    /\ LET o == ValidateOutcome(request, env)
       IN  /\ pc' = IF o.next = "try" THEN "Invoking" ELSE "Failed"
           /\ response' = o.response
           /\ escaped' = o.escaped
           /\ policy_text' = o.policy_text
           /\ api_key' = o.api_key
    /\ UNCHANGED <<env, request, calls, message>>

\* The mutant calls a second time when the first call raises APIError.
InvokeWithRetry ==
    /\ pc = "Invoking"
    /\ \E m \in UpstreamOutcomes :
        /\ message' = m
        /\ IF m.kind = "APIError"
           THEN /\ calls' = calls + 2
                /\ response' = ExceptClauses(Raised("APIError", m.text))
                /\ pc' = "Failed"
           ELSE /\ calls' = calls + 1
                /\ response' = response
                /\ pc' = "ParsingResponse"
    /\ UNCHANGED <<env, request, policy_text, api_key, escaped>>

\* Lines 143-150, and lines 176-178 when the call raises APIError.
Invoke ==
    /\ pc = "Invoking"
    /\ \E m \in UpstreamOutcomes :
        /\ message' = m
        /\ calls' = calls + 1
        /\ IF m.kind = "APIError"
           THEN /\ response' = ExceptClauses(Raised("APIError", m.text))
                /\ pc' = "Failed"
           ELSE /\ response' = response
                /\ pc' = "ParsingResponse"
    /\ UNCHANGED <<env, request, policy_text, api_key, escaped>>

\* Lines 152-174, and the except clauses of lines 179-184.
ParseResponse ==
    /\ pc = "ParsingResponse"
    /\ LET r == TryBody(message)
       IN  /\ response' = ExceptClauses(r)
           /\ pc' = IF r.raised = "none" THEN "Succeeded" ELSE "Failed"
    /\ UNCHANGED <<env, request, policy_text, api_key, calls, message, escaped>>

Next == Receive \/ Validate \/ Invoke \/ ParseResponse

Spec == Init /\ [][Next]_vars

Done == pc \in {"Succeeded", "Failed"}

(***************************** properties **********************************)
\* The request has been validated or refused (lines 129-137 have run).
Validated == pc \notin {"Idle", "Validating"}

\* A field that is absent, empty or whitespace-only.
BlankField(v) == v.t = "absent" \/ (v.t = "str" /\ Strip(v.s) = <<>>)

\* A field that is absent, falsy (null, 0) or a string: one that line 131
\* or 132 can trim.
StringField(v) == ~Truthy(v) \/ v.t = "str"

\* A key is available from the request or from the environment.
KeyAvailable ==
    \/ request.api_key.t = "str" /\ Strip(request.api_key.s) # <<>>
    \/ EnvGet(env) # <<>>

\* The upstream call returned a message whose first block is the text T.
HasReply == message.kind = "message" /\ Len(message.content) = 1
ReplyText == message.content[1]

\* No newline in the trimmed reply.
NoNewline(s) == \A i \in 1..Len(s) : s[i] # "\n"

\* T inside an opening fence line (with or without a language tag) and a
\* closing fence (on its own line or not).
Wrappings(T) ==
    {Fence \o tag \o <<"\n">> \o T \o close \o Fence :
        tag \in {<<>>, <<"json">>}, close \in {<<>>, <<"\n">>}}

\* The response the handler gives to a reply text.
OutcomeOf(T) ==
    ExceptClauses(TryBody([kind |-> "message", content |-> <<T>>, text |-> <<>>]))

\* C1 as stated: blank policy_text fails with EmptyInput and no upstream
\* call, whatever the api_key field and the environment are.
C1_Original ==
    (Validated /\ request.kind = "object" /\ BlankField(request.policy_text)
        /\ StringField(request.api_key))
    => (pc = "Failed" /\ response = EmptyInput /\ calls = 0)

\* C1 amended: blank policy_text, with api_key absent, falsy or a string, fails
\* with EmptyInput when a key is available and with MissingApiKey when none
\* is; in both cases no upstream call is made.
C1_EmptyInputWhenKeyAvailable ==
    (Validated /\ request.kind = "object" /\ BlankField(request.policy_text)
        /\ StringField(request.api_key))
    => /\ pc = "Failed"
       /\ calls = 0
       /\ escaped = "none"
       /\ response = IF KeyAvailable THEN EmptyInput ELSE MissingApiKey

C1_Witness ==
    /\ pc = "Failed"
    /\ request.kind = "object"
    /\ request.policy_text = Str(<<" ">>)
    /\ request.api_key = Absent
    /\ env = Str(<<"k">>)
    /\ response = EmptyInput
    /\ calls = 0

\* C2 as stated: api_key absent or empty after trimming and no environment
\* fallback fails with MissingApiKey and no upstream call.
C2_MissingApiKey ==
    (Validated /\ request.kind = "object" /\ BlankField(request.api_key)
        /\ EnvGet(env) = <<>>)
    => (pc = "Failed" /\ response = MissingApiKey /\ calls = 0)

\* C3 as stated: every request ends with 200 and {policies: <array>} or
\* with a non-2xx status and {error: <string>}, and no exception escapes.
C3_TwoShapes ==
    Done =>
        /\ escaped = "none"
        /\ response.kind = "json"
        /\ \/ /\ response.status = 200
              /\ response.key = "policies"
              /\ response.body # <<>> /\ Head(response.body) = "["
           \/ /\ response.status \notin 200..299
              /\ response.key = "error"

\* C4: a reply that is not valid JSON after fence-stripping ends in a
\* ResponseParseError response (500, 'Failed to parse Claude response as
\* JSON: ...') after exactly one upstream call.
C4_ParseErrorOnce ==
    (Done /\ HasReply /\ StripFences(ReplyText).raised = "none"
        /\ ~JsonLoads(StripFences(ReplyText).cleaned).ok)
    => /\ pc = "Failed"
       /\ response.status = 500
       /\ response.kind = "json" /\ response.key = "error"
       /\ Head(response.body) = "Failed to parse Claude response as JSON: "
       /\ calls = 1

C4_Witness ==
    /\ pc = "Failed"
    /\ HasReply
    /\ ReplyText = Fence \o <<"json", "\n", "[", "1", ",", "]", "\n">> \o Fence
    /\ response = ErrorResponse(500, <<"Failed to parse Claude response as JSON: ",
                                       "Expecting value", "char", "3">>)
    /\ calls = 1

\* C5 as stated: for every reply text T, the outcome for T wrapped in
\* fences is the outcome for T.
C5_Original ==
    (Done /\ HasReply) => \A w \in Wrappings(ReplyText) : OutcomeOf(w) = response

\* C5 amended: for every reply text T whose trimmed form neither starts
\* nor ends with three backticks, the outcome for T wrapped in fences is
\* the outcome for T.
C5_WrapUnfenced ==
    (Done /\ HasReply /\ ~StartsWithFence(Strip(ReplyText))
        /\ ~EndsWithFence(Strip(ReplyText)))
    => \A w \in Wrappings(ReplyText) : OutcomeOf(w) = response

C5_Witness ==
    /\ pc = "Succeeded"
    /\ HasReply
    /\ ReplyText = <<" ", "{", "\"policies\"", ":", "[", "]", "}", "\n">>
    /\ response = PoliciesResponse(JList(<<>>))
    /\ \A w \in Wrappings(ReplyText) : OutcomeOf(w) = response

\* C6 as stated: a reply that parses to a bare array is answered with 200
\* and that array; one that parses to an object with 200 and the value of
\* its policies key, the empty array when the key is absent.
C6_ArrayOrObject ==
    (Done /\ HasReply /\ StripFences(ReplyText).raised = "none"
        /\ JsonLoads(StripFences(ReplyText).cleaned).ok)
    => LET parsed == JsonLoads(StripFences(ReplyText).cleaned).val
       IN  /\ parsed.t = "list" => response = PoliciesResponse(parsed)
           /\ parsed.t = "dict" =>
                response = PoliciesResponse(DictGet(parsed, "policies", JList(<<>>)))

\* C7: when the upstream call fails the request ends Failed with
\* UpstreamApiError (500, 'Claude API error: <upstream text>') and one
\* upstream call only.
C7_UpstreamErrorOnce ==
    /\ calls <= 1
    /\ message.kind = "APIError" =>
        /\ pc = "Failed"
        /\ response = ErrorResponse(500, <<"Claude API error: ">> \o message.text)
        /\ calls = 1

C7_Witness ==
    /\ pc = "Failed"
    /\ message.kind = "APIError"
    /\ response.status = 500
    /\ response.body = <<"Claude API error: ", "upstream error text">>
    /\ calls = 1

\* C8 as stated: blank policy_text is answered with {policies: []} and a
\* success status.
C8_Original ==
    (Done /\ request.kind = "object" /\ BlankField(request.policy_text))
    => response = PoliciesResponse(JList(<<>>))

\* C8 amended: blank policy_text is never answered with {policies: []}:
\* the request fails with a non-2xx status and no upstream call, and with
\* status 400 and {error: ...} when api_key is absent, falsy or a string.
C8_BlankIsAnError ==
    (Validated /\ request.kind = "object" /\ BlankField(request.policy_text))
    => /\ pc = "Failed"
       /\ response.key # "policies"
       /\ response.status \notin 200..299
       /\ calls = 0
       /\ StringField(request.api_key) =>
            (response.status = 400 /\ response.kind = "json" /\ response.key = "error")

C8_Witness ==
    /\ pc = "Failed"
    /\ request.kind = "object"
    /\ request.policy_text = Str(<<>>)
    /\ request.api_key = Str(<<"x">>)
    /\ response.status = 400
    /\ response.body = <<"No policy text provided.">>

\* C9 as stated: a reply that parses to a policies array of atom objects is
\* answered with 200 and that same array, whatever the atoms' fields are.
C9_AtomsPassThrough ==
    (Done /\ HasReply /\ StripFences(ReplyText).raised = "none"
        /\ JsonLoads(StripFences(ReplyText).cleaned).ok)
    => LET policies == ExtractPolicies(JsonLoads(StripFences(ReplyText).cleaned).val)
       IN  (policies.t = "list" /\ \A i \in 1..Len(policies.v) : policies.v[i].t = "dict")
           => (pc = "Succeeded" /\ response = PoliciesResponse(policies))

\* C10: a trimmed reply that starts with three backticks and holds no
\* newline ends with 500 through the catch-all clause (the error is the
\* exception's string), after exactly one upstream call.
C10_FenceWithoutNewline ==
    (Done /\ HasReply /\ StartsWithFence(Strip(ReplyText)) /\ NoNewline(Strip(ReplyText)))
    => /\ pc = "Failed"
       /\ response = ErrorResponse(500, <<"substring not found">>)
       /\ calls = 1

C10_Witness ==
    /\ pc = "Failed"
    /\ HasReply
    /\ ReplyText = Fence \o <<"json", "[", "]">> \o Fence \o <<" ">>
    /\ response = ErrorResponse(500, <<"substring not found">>)
    /\ calls = 1

=============================================================================
